---- MODULE Spec2Model ----
(***************************************************************************)
(* Model of argskwargs.py: the Arguments container, its factory            *)
(* argskwargs() and the operations on containers.                          *)
(*                                                                         *)
(* An Arguments object is a heap cell with the two slots args and kwargs.  *)
(* __iter__ is a generator: gen is the generator object the caller holds,  *)
(* with the place its body is suspended at.                                *)
(* A reference is an index into heap, so identity is equality of indices.  *)
(* A tuple is a sequence of values.  A dict is a sequence of <<key,value>> *)
(* pairs with distinct keys, in insertion order, as Python keeps it.       *)
(***************************************************************************)
EXTENDS Integers, Sequences, FiniteSets, TLC

VARIABLES heap, last, gen

vars == <<heap, last, gen>>

(* ------------------------------ bounds -------------------------------- *)

\* Number of Arguments objects the callers keep alive at once.
MaxHeap == 2

(* -------------------------- input domains ----------------------------- *)

\* The strings used as keyword names, in ascending order of Python's str
\* comparison.  "callable" and "self" are also parameter names of methods.
Keys == <<"a", "b", "callable", "self">>

\* Positional and keyword arguments handed to argskwargs().
ArgsIn == {<<>>, <<1>>}
KwargsIn == {<<>>, <<<<"a", 1>>>>, <<<<"b", 2>>, <<"a", 1>>>>}

\* Additional arguments handed to apply(), partial() and copy(): none, a
\* positional one, a named one that is stored already or is new, and
\* named ones called like a parameter of the methods.
ExtrasIn ==
    {[args |-> <<>>, kwargs |-> <<>>],
     [args |-> <<2>>, kwargs |-> <<>>],
     [args |-> <<2>>, kwargs |-> <<<<"a", 2>>>>],
     [args |-> <<>>, kwargs |-> <<<<"b", 2>>>>],
     [args |-> <<>>, kwargs |-> <<<<"callable", 1>>>>],
     [args |-> <<2>>, kwargs |-> <<<<"self", 1>>>>]}

\* The callables the containers are applied to:
\*   def echo(*a, **k): return (a, k)
\*   def head(*a, **k): return a[0]        (IndexError without positionals)
Targets == {"echo", "head"}

(* ------------------------- tuples and dicts --------------------------- *)

keys(d) == {d[i][1] : i \in DOMAIN d}

items(d) == {d[i] : i \in DOMAIN d}

\* dict.__eq__: same keys, equal values, whatever the insertion order.
dict_eq(d, e) == items(d) = items(e)

\* d[k] = v: an existing key keeps its place, a new key goes last.
setitem(d, k, v) ==
    IF k \in keys(d)
    THEN [i \in DOMAIN d |-> IF d[i][1] = k THEN <<k, v>> ELSE d[i]]
    ELSE Append(d, <<k, v>>)

\* d.update(e), on a copy of d.
RECURSIVE update(_, _)
update(d, e) ==
    IF e = <<>> THEN d
    ELSE update(setitem(d, Head(e)[1], Head(e)[2]), Tail(e))

\* Python's str comparison on the keyword names.
str_lt(k1, k2) ==
    (CHOOSE i \in DOMAIN Keys : Keys[i] = k1) < (CHOOSE i \in DOMAIN Keys : Keys[i] = k2)

\* Comparison of two (name, value) tuples: by name, then by value.
item_lt(p, q) == str_lt(p[1], q[1]) \/ (p[1] = q[1] /\ p[2] < q[2])

\* sorted(d.items())
RECURSIVE sorted(_)
sorted(s) ==
    IF s = <<>> THEN <<>>
    ELSE LET rest == sorted(Tail(s))
         IN  SelectSeq(rest, LAMBDA q : item_lt(q, Head(s)))
             \o <<Head(s)>>
             \o SelectSeq(rest, LAMBDA q : ~item_lt(q, Head(s)))

\* sep.join(chunks)
RECURSIVE join(_, _)
join(sep, chunks) ==
    IF chunks = <<>> THEN ""
    ELSE IF Len(chunks) = 1 THEN chunks[1]
    ELSE chunks[1] \o sep \o join(sep, Tail(chunks))

\* repr() of a stored value (the values are ints).
repr(v) == ToString(v)

(* ------------------------- results of calls --------------------------- *)

\* A call returns a value or raises; h is the heap it leaves, calls the
\* invocations of targets it made, in order.
Return(h, v, c) == [heap |-> h, kind |-> "return", val |-> v, by |-> "", calls |-> c]

Raise(h, e, who, c) == [heap |-> h, kind |-> "raise", val |-> e, by |-> who, calls |-> c]

\* Python's argument binding: a keyword argument named like a parameter
\* that is already bound positionally is "multiple values for argument".
multiple_values(params, kwargs) == keys(kwargs) \cap params # {}

(* --------------------------- the module ------------------------------- *)

_yes_i_am_an_internal_call == "_yes_i_am_an_internal_call"

\* Values a caller can pass as the third constructor argument: any object of
\* its own, or the module global above, which every importer of the module
\* can read.
Magic == {"None", "object()", _yes_i_am_an_internal_call}

\* Fault: __init__ without the check of magic.
__init___unchecked(h, self, args, kwargs, magic) ==
    Return([h EXCEPT ![self] = [args |-> args, kwargs |-> kwargs]], "None", <<>>)

\* self.__init__(args, kwargs, magic): the check of magic, then the two
\* slots of self are assigned, whatever they held.
__init__(h, self, args, kwargs, magic) ==
    IF magic # _yes_i_am_an_internal_call
    THEN Raise(h, "TypeError", "Arguments.__init__", <<>>)
    ELSE Return([h EXCEPT ![self] = [args |-> args, kwargs |-> kwargs]], "None", <<>>)

\* Arguments(args, kwargs, magic): type.__call__ allocates an object with
\* empty slots and runs __init__ on it; the object is kept and returned only
\* if __init__ returns.
Arguments(h, args, kwargs, magic) ==
    LET new == Len(h) + 1
        r == __init__(Append(h, [args |-> <<>>, kwargs |-> <<>>]), new, args, kwargs, magic)
    IN  IF r.kind = "raise" THEN [r EXCEPT !.heap = h]
        ELSE Return(r.heap, new, <<>>)

argskwargs(h, args, kwargs) == Arguments(h, args, kwargs, _yes_i_am_an_internal_call)

\* callable(*args, **kwargs) for the callables of the model.
Invoke(h, callable, args, kwargs) ==
    LET c == <<[callable |-> callable, args |-> args, kwargs |-> kwargs]>>
    IN  CASE callable = "argskwargs" ->
               LET r == argskwargs(h, args, kwargs) IN [r EXCEPT !.calls = c]
          [] callable = "echo" -> Return(h, <<args, kwargs>>, c)
          [] callable = "head" ->
               IF args = <<>> THEN Raise(h, "IndexError", "head", c)
               ELSE Return(h, args[1], c)

\* Fault: __repr__ without sorted().
__repr___unsorted(self) ==
    LET chunks == [i \in DOMAIN self.args |-> repr(self.args[i])]
                  \o [i \in DOMAIN self.kwargs |->
                        self.kwargs[i][1] \o "=" \o repr(self.kwargs[i][2])]
    IN  "argskwargs(" \o join(", ", chunks) \o ")"

__repr__(self) ==
    LET chunks == [i \in DOMAIN self.args |-> repr(self.args[i])]
                  \o [i \in DOMAIN self.kwargs |->
                        sorted(self.kwargs)[i][1] \o "=" \o repr(sorted(self.kwargs)[i][2])]
    IN  "argskwargs(" \o join(", ", chunks) \o ")"

__str__(self) == __repr__(self)

\* The body of the generator __iter__, resumed by next() at place pc
\* ("created": not started; "yield args", "yield kwargs": suspended at that
\* yield) on the heap of that moment: the place it stops at and the
\* outcome of next().  "" is the finished generator.
\* Fault: __iter__ without its second yield.
__iter___args_only(h, self, pc) ==
    IF pc = "created"
    THEN [pc |-> "yield args", out |-> Return(h, h[self].args, <<>>)]
    ELSE [pc |-> "", out |-> Raise(h, "StopIteration", "next", <<>>)]

__iter__(h, self, pc) ==
    CASE pc = "created" ->
           [pc |-> "yield args", out |-> Return(h, h[self].args, <<>>)]
      [] pc = "yield args" ->
           [pc |-> "yield kwargs", out |-> Return(h, h[self].kwargs, <<>>)]
      [] pc = "yield kwargs" ->
           [pc |-> "", out |-> Raise(h, "StopIteration", "next", <<>>)]

apply(h, self, callable, args, kwargs) ==
    IF multiple_values({"self", "callable"}, kwargs)
    THEN Raise(h, "TypeError", "Arguments.apply", <<>>)
    ELSE IF args = <<>> /\ kwargs = <<>>
    THEN Invoke(h, callable, h[self].args, h[self].kwargs)
    ELSE LET merged_kwargs == update(h[self].kwargs, kwargs)
         IN  Invoke(h, callable, h[self].args \o args, merged_kwargs)

\* functools.partial(func, *args, **keywords): the object it returns.
functools_partial(func, args, keywords) ==
    [func |-> func, args |-> args, keywords |-> keywords]

\* p(): the stored callable on the stored arguments, no further ones.
functools_partial_call(h, p) == Invoke(h, p.func, p.args, p.keywords)

\* Fault: partial() letting the stored named arguments win.
partial_stored_wins(h, self, callable, args, kwargs) ==
    IF multiple_values({"self", "callable"}, kwargs)
    THEN Raise(h, "TypeError", "Arguments.partial", <<>>)
    ELSE LET merged_kwargs == update(kwargs, h[self].kwargs)
         IN  Return(h, functools_partial(callable, h[self].args \o args, merged_kwargs), <<>>)

partial(h, self, callable, args, kwargs) ==
    IF multiple_values({"self", "callable"}, kwargs)
    THEN Raise(h, "TypeError", "Arguments.partial", <<>>)
    ELSE LET merged_kwargs == update(h[self].kwargs, kwargs)
         IN  Return(h, functools_partial(callable, h[self].args \o args, merged_kwargs), <<>>)

\* Fault: copy() merging the extras into self.
copy_in_place(h, self, args, kwargs) ==
    IF multiple_values({"self", "callable"}, kwargs)
    THEN Raise(h, "TypeError", "Arguments.copy", <<>>)
    ELSE IF args = <<>> /\ kwargs = <<>>
    THEN Return(h, self, <<>>)
    ELSE Return([h EXCEPT ![self] = [args |-> h[self].args \o args,
                                     kwargs |-> update(h[self].kwargs, kwargs)]],
                self, <<>>)

\* Fault: copy() without the shortcut for no extras.
copy_always_new(h, self, args, kwargs) ==
    IF multiple_values({"self"}, kwargs)
    THEN Raise(h, "TypeError", "Arguments.copy", <<>>)
    ELSE apply(h, self, "argskwargs", args, kwargs)

copy(h, self, args, kwargs) ==
    IF multiple_values({"self"}, kwargs)
    THEN Raise(h, "TypeError", "Arguments.copy", <<>>)
    ELSE IF args = <<>> /\ kwargs = <<>>
    THEN Return(h, self, <<>>)
    ELSE apply(h, self, "argskwargs", args, kwargs)

\* Fault: __eq__ without the check of the other value's type.
__eq___untyped(h, self, other) ==
    h[self].args = h[other.ref].args
    /\ dict_eq(h[self].kwargs, h[other.ref].kwargs)

\* other is [type, ref]: the Arguments object ref, or a value of another
\* type.
__eq__(h, self, other) ==
    IF other.type # "Arguments" THEN FALSE
    ELSE h[self].args = h[other.ref].args
         /\ dict_eq(h[self].kwargs, h[other.ref].kwargs)

__ne__(h, self, other) == ~__eq__(h, self, other)

__copy__(h, self) == Return(h, self, <<>>)

__deepcopy__(h, self) == Return(h, self, <<>>)

__getstate__(self) == <<self.args, self.kwargs>>

__setstate__(h, self, state) ==
    Return([h EXCEPT ![self] = [args |-> state[1], kwargs |-> state[2]]], "None", <<>>)

\* pickle.loads(pickle.dumps(x)): object.__new__(Arguments), whose slots
\* are unset until __setstate__ fills them with the pickled state.
unpickle(h, state) ==
    LET new == Len(h) + 1
        r == __setstate__(Append(h, [args |-> <<>>, kwargs |-> <<>>]), new, state)
    IN  Return(r.heap, new, <<>>)

(* ------------------------ state and callers --------------------------- *)

\* last is the top-level call the caller made last, with its arguments and
\* its outcome; Idle when the caller has taken the outcome.  other is the
\* second operand of a comparison: [type, ref], the Arguments object ref,
\* or for another type the tuple __getstate__() of object ref.
Idle ==
    [op |-> "idle", self |-> 0, callable |-> "", args |-> <<>>, kwargs |-> <<>>,
     other |-> [type |-> "NoneType", ref |-> 0], magic |-> "", pc |-> "",
     kind |-> "return", val |-> "None", by |-> "", calls |-> <<>>]

\* No generator is held.
NoGen == [self |-> 0, pc |-> ""]

Refs == DOMAIN heap

Others(self) ==
    {[type |-> "Arguments", ref |-> j] : j \in Refs}
    \cup {[type |-> "tuple", ref |-> self]}

\* The call ends with outcome r.  The callers keep at most MaxHeap objects.
Done(call, r) ==
    /\ Len(r.heap) <= MaxHeap
    /\ heap' = r.heap
    /\ last' = [call EXCEPT !.kind = r.kind, !.val = r.val, !.by = r.by,
                            !.calls = r.calls]
    /\ gen' = gen

Init ==
    /\ heap = <<>>
    /\ last = Idle
    /\ gen = NoGen

MakeArguments ==
    /\ last.op = "idle"
    /\ \E args \in ArgsIn, kwargs \in KwargsIn :
          Done([Idle EXCEPT !.op = "argskwargs", !.args = args, !.kwargs = kwargs],
               argskwargs(heap, args, kwargs))

Construct ==
    /\ last.op = "idle"
    /\ \E args \in ArgsIn, kwargs \in KwargsIn, magic \in Magic :
          Done([Idle EXCEPT !.op = "Arguments", !.args = args, !.kwargs = kwargs,
                            !.magic = magic],
               Arguments(heap, args, kwargs, magic))

\* self.__init__(args, kwargs, magic) on an object that already exists.
ReInit ==
    /\ last.op = "idle"
    /\ \E self \in Refs, args \in ArgsIn, kwargs \in KwargsIn, magic \in Magic :
          Done([Idle EXCEPT !.op = "__init__", !.self = self, !.args = args,
                            !.kwargs = kwargs, !.magic = magic],
               __init__(heap, self, args, kwargs, magic))

Repr ==
    /\ last.op = "idle"
    /\ \E self \in Refs :
          Done([Idle EXCEPT !.op = "__repr__", !.self = self],
               Return(heap, __repr__(heap[self]), <<>>))

Str ==
    /\ last.op = "idle"
    /\ \E self \in Refs :
          Done([Idle EXCEPT !.op = "__str__", !.self = self],
               Return(heap, __str__(heap[self]), <<>>))

\* iter(self): a new generator, whose body has not started; the caller
\* holds one generator at a time.
Iter ==
    /\ last.op = "idle"
    /\ \E self \in Refs :
          /\ gen' = [self |-> self, pc |-> "created"]
          /\ last' = [Idle EXCEPT !.op = "__iter__", !.self = self, !.val = "generator"]
          /\ heap' = heap

\* next() on the generator held: its body runs to the next yield or to
\* its end.
NextItem ==
    /\ last.op = "idle"
    /\ gen.pc # ""
    /\ LET r == __iter__(heap, gen.self, gen.pc)
       IN  /\ gen' = IF r.pc = "" THEN NoGen ELSE [gen EXCEPT !.pc = r.pc]
           /\ last' = [Idle EXCEPT !.op = "next", !.self = gen.self, !.pc = gen.pc,
                                   !.kind = r.out.kind, !.val = r.out.val,
                                   !.by = r.out.by]
           /\ heap' = r.out.heap

Apply ==
    /\ last.op = "idle"
    /\ \E self \in Refs, callable \in Targets, extra \in ExtrasIn :
          Done([Idle EXCEPT !.op = "apply", !.self = self, !.callable = callable,
                            !.args = extra.args, !.kwargs = extra.kwargs],
               apply(heap, self, callable, extra.args, extra.kwargs))

Partial ==
    /\ last.op = "idle"
    /\ \E self \in Refs, callable \in Targets, extra \in ExtrasIn :
          Done([Idle EXCEPT !.op = "partial", !.self = self, !.callable = callable,
                            !.args = extra.args, !.kwargs = extra.kwargs],
               partial(heap, self, callable, extra.args, extra.kwargs))

\* The caller invokes the callable partial() returned, with no arguments.
PartialCall ==
    /\ last.op = "partial"
    /\ last.kind = "return"
    /\ Done([last EXCEPT !.op = "partial()"], functools_partial_call(heap, last.val))

Copy ==
    /\ last.op = "idle"
    /\ \E self \in Refs, extra \in ExtrasIn :
          Done([Idle EXCEPT !.op = "copy", !.self = self,
                            !.args = extra.args, !.kwargs = extra.kwargs],
               copy(heap, self, extra.args, extra.kwargs))

Eq ==
    /\ last.op = "idle"
    /\ \E self \in Refs : \E other \in Others(self) :
          Done([Idle EXCEPT !.op = "__eq__", !.self = self, !.other = other],
               Return(heap, __eq__(heap, self, other), <<>>))

Ne ==
    /\ last.op = "idle"
    /\ \E self \in Refs : \E other \in Others(self) :
          Done([Idle EXCEPT !.op = "__ne__", !.self = self, !.other = other],
               Return(heap, __ne__(heap, self, other), <<>>))

ShallowCopy ==
    /\ last.op = "idle"
    /\ \E self \in Refs :
          Done([Idle EXCEPT !.op = "__copy__", !.self = self], __copy__(heap, self))

DeepCopy ==
    /\ last.op = "idle"
    /\ \E self \in Refs :
          Done([Idle EXCEPT !.op = "__deepcopy__", !.self = self],
               __deepcopy__(heap, self))

GetState ==
    /\ last.op = "idle"
    /\ \E self \in Refs :
          Done([Idle EXCEPT !.op = "__getstate__", !.self = self],
               Return(heap, __getstate__(heap[self]), <<>>))

\* self.__setstate__((args, kwargs))
SetState ==
    /\ last.op = "idle"
    /\ \E self \in Refs, args \in ArgsIn, kwargs \in KwargsIn :
          Done([Idle EXCEPT !.op = "__setstate__", !.self = self,
                            !.args = args, !.kwargs = kwargs],
               __setstate__(heap, self, <<args, kwargs>>))

\* pickle.loads(pickle.dumps(self))
Pickle ==
    /\ last.op = "idle"
    /\ \E self \in Refs :
          Done([Idle EXCEPT !.op = "pickle", !.self = self],
               unpickle(heap, __getstate__(heap[self])))

\* The caller takes the outcome of the last call and goes on.
Continue ==
    /\ last.op # "idle"
    /\ last' = Idle
    /\ UNCHANGED <<heap, gen>>

Next ==
    \/ MakeArguments
    \/ Construct
    \/ ReInit
    \/ Repr
    \/ Str
    \/ Iter
    \/ NextItem
    \/ Apply
    \/ Partial
    \/ PartialCall
    \/ Copy
    \/ Eq
    \/ Ne
    \/ ShallowCopy
    \/ DeepCopy
    \/ GetState
    \/ SetState
    \/ Pickle
    \/ Continue

Spec == Init /\ [][Next]_vars

(* ------------------- vocabulary of the properties --------------------- *)

\* The value a dict holds under key k.
Lookup(d, k) == d[CHOOSE i \in DOMAIN d : d[i][1] = k][2]

\* m holds exactly the keys of N and EN, each with EN's value where EN has
\* the key and with N's value otherwise.
IsMerge(N, EN, m) ==
    /\ Cardinality(keys(m)) = Len(m)
    /\ keys(m) = keys(N) \cup keys(EN)
    /\ \A k \in keys(m) :
          Lookup(m, k) = IF k \in keys(EN) THEN Lookup(EN, k) ELSE Lookup(N, k)

\* Two containers hold equal positionals element-wise and the same keys
\* with equal values.
SameContent(b, c) ==
    /\ Len(b.args) = Len(c.args)
    /\ \A i \in DOMAIN b.args : b.args[i] = c.args[i]
    /\ keys(b.kwargs) = keys(c.kwargs)
    /\ \A k \in keys(b.kwargs) : Lookup(b.kwargs, k) = Lookup(c.kwargs, k)

NoExtras == last.args = <<>> /\ last.kwargs = <<>>

\* The extra keyword names that are also names of parameters.
ParameterNamed == keys(last.kwargs) \cap {"self", "callable"}

\* The display the specification describes: positionals in order, then
\* key=value for the keys in ascending order, joined by ", ".
RECURSIVE NamedChunks(_, _)
NamedChunks(d, n) ==
    IF n > Len(Keys) THEN <<>>
    ELSE (IF Keys[n] \in keys(d)
          THEN <<Keys[n] \o "=" \o ToString(Lookup(d, Keys[n]))>>
          ELSE <<>>) \o NamedChunks(d, n + 1)

RECURSIVE CommaJoined(_)
CommaJoined(c) ==
    IF c = <<>> THEN ""
    ELSE IF Tail(c) = <<>> THEN Head(c)
    ELSE Head(c) \o ", " \o CommaJoined(Tail(c))

Display(b) ==
    "argskwargs("
    \o CommaJoined([i \in DOMAIN b.args |-> ToString(b.args[i])] \o NamedChunks(b.kwargs, 1))
    \o ")"

(* ----------------------------- claims --------------------------------- *)

\* C1 as stated: no operation of the public interface, __setstate__
\* included, changes the two containers of an existing object, and copy()
\* with extras returns a new object.  (A direct call of __init__ is no
\* operation of that interface; what it does is stated with C2.)
C1_NeverMutated ==
    [][/\ \A i \in DOMAIN heap :
             /\ i \in DOMAIN heap'
             /\ last'.op # "__init__" => heap'[i] = heap[i]
       /\ (last'.op = "copy" /\ last'.kind = "return"
             /\ ~(last'.args = <<>> /\ last'.kwargs = <<>>))
          => last'.val \notin DOMAIN heap]_vars

\* C1 amended: every operation of the public interface other than
\* __setstate__ leaves the two containers of every existing object as they
\* were, and copy() with extras returns a new object;
\* self.__setstate__(state) replaces the two containers of self, and of no
\* other object, by those of state.  Outside that interface, the only other
\* step that changes an existing object is self.__init__(args, kwargs,
\* magic) with the internal sentinel as magic, which replaces the two
\* containers of self, and of no other object, by args and kwargs.
C1_MutatedOnlyBySetState ==
    [][/\ \A i \in DOMAIN heap :
             /\ i \in DOMAIN heap'
             /\ \/ heap'[i] = heap[i]
                \/ /\ last'.op = "__setstate__"
                   /\ last'.self = i
                   /\ heap'[i].args = last'.args
                   /\ heap'[i].kwargs = last'.kwargs
                \/ /\ last'.op = "__init__"
                   /\ last'.magic = _yes_i_am_an_internal_call
                   /\ last'.self = i
                   /\ heap'[i].args = last'.args
                   /\ heap'[i].kwargs = last'.kwargs
       /\ (last'.op = "copy" /\ last'.kind = "return"
             /\ ~(last'.args = <<>> /\ last'.kwargs = <<>>))
          => last'.val \notin DOMAIN heap]_vars

\* copy() with extras has returned a new object whose content differs
\* from the original's.
C1_Witness ==
    /\ last.op = "copy"
    /\ last.kind = "return"
    /\ last.val # last.self
    /\ ~SameContent(heap[last.val], heap[last.self])

\* C2 as stated: every object comes from argskwargs(), directly or through
\* copy(), and every other attempt to construct one (a call of the
\* constructor, or of __init__ on an object) raises TypeError and creates
\* and changes no object.
C2_OnlyFactory ==
    [][/\ Len(heap') > Len(heap) => last'.op \in {"argskwargs", "copy"}
       /\ last'.op \in {"Arguments", "__init__"}
          => last'.kind = "raise" /\ last'.val = "TypeError" /\ heap' = heap]_vars

\* C2 amended: the gate is the identity of the magic argument and nothing
\* else.  Every object comes from a call of the constructor with the
\* internal sentinel as magic (argskwargs() makes that call, directly or
\* through copy(), and so can any caller that reads the sentinel from the
\* module) or from unpickling (allocation without the constructor, then
\* __setstate__).  A call of the constructor, or of __init__ on an existing
\* object, with any other magic raises TypeError and creates and changes no
\* object; with the sentinel it returns, and the object (the new one, or
\* the existing one) then holds exactly the args and kwargs given.
C2_GateIsTheSentinel ==
    [][/\ Len(heap') > Len(heap)
          => \/ last'.op \in {"argskwargs", "copy", "pickle"}
             \/ last'.op = "Arguments" /\ last'.magic = _yes_i_am_an_internal_call
       /\ (last'.op \in {"Arguments", "__init__"}
             /\ last'.magic # _yes_i_am_an_internal_call)
          => /\ last'.kind = "raise"
             /\ last'.val = "TypeError"
             /\ last'.by = "Arguments.__init__"
             /\ heap' = heap
       /\ (last'.op \in {"Arguments", "__init__"}
             /\ last'.magic = _yes_i_am_an_internal_call)
          => /\ last'.kind = "return"
             /\ LET o == IF last'.op = "Arguments" THEN last'.val ELSE last'.self
                IN  /\ o \in DOMAIN heap'
                    /\ (last'.op = "Arguments") = (o \notin DOMAIN heap)
                    /\ heap'[o].args = last'.args
                    /\ heap'[o].kwargs = last'.kwargs
                    /\ \A i \in DOMAIN heap : i # o => heap'[i] = heap[i]]_vars

\* A direct call of the constructor with a magic of the caller's own has
\* been denied while an object exists.
C2_Witness ==
    /\ last.op = "Arguments"
    /\ last.magic # _yes_i_am_an_internal_call
    /\ last.kind = "raise"
    /\ last.by = "Arguments.__init__"
    /\ Len(heap) >= 1

\* C3 as stated: apply() invokes the target exactly once, with the stored
\* positionals followed by the extra ones and with the stored named
\* arguments overridden by the extra ones.
C3_ApplyMerge ==
    last.op = "apply" =>
        /\ Len(last.calls) = 1
        /\ last.calls[1].callable = last.callable
        /\ last.calls[1].args = heap[last.self].args \o last.args
        /\ IsMerge(heap[last.self].kwargs, last.kwargs, last.calls[1].kwargs)

\* The same for the extra keyword names that are not parameter names of
\* apply(): what is left of C3 beside the binding failure of C8.
ApplyMergeOtherNames ==
    (last.op = "apply" /\ ParameterNamed = {}) =>
        /\ Len(last.calls) = 1
        /\ last.calls[1].callable = last.callable
        /\ last.calls[1].args = heap[last.self].args \o last.args
        /\ IsMerge(heap[last.self].kwargs, last.kwargs, last.calls[1].kwargs)

\* C4 as stated: copy() with extras returns a container with the stored
\* positionals followed by the extra ones and the stored named arguments
\* overridden by the extra ones.
C4_CopyMerge ==
    (last.op = "copy" /\ ~NoExtras) =>
        /\ last.kind = "return"
        /\ last.val \in DOMAIN heap
        /\ heap[last.val].args = heap[last.self].args \o last.args
        /\ IsMerge(heap[last.self].kwargs, last.kwargs, heap[last.val].kwargs)

\* The same for the extra keyword names that are not parameter names:
\* what is left of C4 beside the binding failure of C8.
CopyMergeOtherNames ==
    (last.op = "copy" /\ ~NoExtras /\ ParameterNamed = {}) =>
        /\ last.kind = "return"
        /\ last.val \in DOMAIN heap
        /\ heap[last.val].args = heap[last.self].args \o last.args
        /\ IsMerge(heap[last.self].kwargs, last.kwargs, heap[last.val].kwargs)

\* C5: copy() without extras, __copy__() and __deepcopy__() return the
\* object they were called on, not a new one.
C5_CopyIsSelf ==
    ((last.op = "copy" /\ NoExtras) \/ last.op \in {"__copy__", "__deepcopy__"}) =>
        /\ last.kind = "return"
        /\ last.val = last.self

\* copy() without extras has returned while another object exists.
C5_Witness ==
    /\ last.op = "copy"
    /\ NoExtras
    /\ last.kind = "return"
    /\ Len(heap) = 2
    /\ last.self = 1

\* C6: == answers whether the other value is an Arguments object with
\* equal positionals and equal named arguments, and != answers the
\* opposite; == is reflexive, and symmetric between two objects.
C6_StructuralEquality ==
    /\ last.op \in {"__eq__", "__ne__"} =>
          last.val = ((last.op = "__eq__") <=>
                        (/\ last.other.type = "Arguments"
                         /\ SameContent(heap[last.self], heap[last.other.ref])))
    /\ (last.op = "__eq__" /\ last.other.type = "Arguments") =>
          /\ last.other.ref = last.self => last.val = TRUE
          /\ last.val = __eq__(heap, last.other.ref,
                               [type |-> "Arguments", ref |-> last.self])
          /\ last.val = ~__ne__(heap, last.self, last.other)

\* == has found two distinct objects equal whose named arguments were
\* inserted in different orders.
C6_Witness ==
    /\ last.op = "__eq__"
    /\ last.val = TRUE
    /\ last.other.type = "Arguments"
    /\ last.other.ref # last.self
    /\ Len(heap[last.self].kwargs) = 2
    /\ heap[last.self].kwargs # heap[last.other.ref].kwargs

\* C7: partial() invokes nothing, and invoking what it returned, with no
\* further arguments, makes the invocation apply() makes on the same
\* arguments, with the same outcome.
C7_PartialLikeApply ==
    /\ last.op = "partial" => last.calls = <<>>
    /\ last.op = "partial()" =>
          LET r == apply(heap, last.self, last.callable, last.args, last.kwargs)
          IN  /\ last.calls = r.calls
              /\ last.kind = r.kind
              /\ last.by = r.by
              /\ last.val = r.val

\* The callable of partial() has returned, with an extra named argument
\* that overrides a stored one and an extra positional one.
C7_Witness ==
    /\ last.op = "partial()"
    /\ last.kind = "return"
    /\ last.args # <<>>
    /\ heap[last.self].args # <<>>
    /\ keys(last.kwargs) \cap keys(heap[last.self].kwargs) # {}

\* C8 as stated: apply() fails only when the target it invoked fails, and
\* then with the target's error; copy() and partial() never fail.
C8_NoOtherFailure ==
    /\ (last.op = "apply" /\ last.kind = "raise") =>
          /\ Len(last.calls) = 1
          /\ last.by = last.callable
    /\ last.op \in {"copy", "partial"} => last.kind = "return"

\* C9: the container argskwargs() returns holds the positionals and the
\* named arguments it was given, as given; iterating a container yields
\* exactly two elements, its positionals and then its named arguments,
\* each as the container holds it when it is yielded.
C9_RoundTrip ==
    /\ last.op = "argskwargs" =>
          /\ last.kind = "return"
          /\ heap[last.val].args = last.args
          /\ heap[last.val].kwargs = last.kwargs
    /\ last.op = "__iter__" => gen = [self |-> last.self, pc |-> "created"]
    /\ (last.op = "next" /\ last.pc = "created") =>
          /\ last.kind = "return"
          /\ last.val = heap[last.self].args
          /\ gen = [self |-> last.self, pc |-> "yield args"]
    /\ (last.op = "next" /\ last.pc = "yield args") =>
          /\ last.kind = "return"
          /\ last.val = heap[last.self].kwargs
          /\ gen = [self |-> last.self, pc |-> "yield kwargs"]
    /\ (last.op = "next" /\ last.pc = "yield kwargs") =>
          /\ last.kind = "raise"
          /\ last.val = "StopIteration"
          /\ gen = NoGen

\* The second next() has yielded the two named arguments of a container
\* that holds a positional one.
C9_Witness ==
    /\ last.op = "next"
    /\ last.pc = "yield args"
    /\ last.kind = "return"
    /\ Len(last.val) = 2
    /\ Len(heap[last.self].args) = 1

\* C10: the display is argskwargs(...) around the positionals in their
\* order and then key=value in ascending order of the keys, joined by
\* ", "; two containers that are equal have the same display.
C10_Display ==
    /\ last.op \in {"__repr__", "__str__"} => last.val = Display(heap[last.self])
    /\ (last.op = "__eq__" /\ last.val = TRUE) =>
          __repr__(heap[last.self]) = __repr__(heap[last.other.ref])

\* The display of a container whose named arguments were inserted as b, a.
C10_Witness ==
    /\ last.op = "__repr__"
    /\ last.val = "argskwargs(1, 2, a=1, b=2)"
    /\ heap[last.self].kwargs[1][1] = "b"

====
